---- MODULE Spec2Model ----
(***************************************************************************)
(* Model of the cancellation-token crate (cancellation-token/src/token.rs  *)
(* and cancellation-token/src/future.rs): the shared CancellationState     *)
(* (atomic flag + mutex-guarded waiter list), the FutureWaiter cell, the   *)
(* CancellationToken / ReadOnlyCancellationToken handles and the           *)
(* CancellationTokenFuture.  A step is one access to shared data: the flag *)
(* store, the flag load, a set_waker, an add/remove under the registry     *)
(* lock, taking the lock for the drain, one iteration of the drain loop    *)
(* (take_waker and wake), and the release of the lock.                     *)
(***************************************************************************)
EXTENDS Naturals, Sequences, FiniteSets

\* ------------------------------------------------------------------ bounds
MaxFutures == 2      \* futures created in one behaviour
MaxHandles == 3      \* token handles (originals, clones, read-only views)
MaxTokenFutures == 1 \* futures created in a behaviour that also creates handles
MaxWakeCount == 3    \* wake counters saturate here

Futures  == 1..MaxFutures
States   == {1, 2}               \* independent CancellationState allocations
Threads  == {"t1", "t2"}         \* threads that call cancel()
Wakers   == {"w1", "w2"}         \* wakers an executor may pass to poll()
None     == "None"               \* Option::None
NoState  == 0                    \* "not bound to any state"
NoThread == "free"               \* a mutex nobody holds
Poller   == "poll"               \* the task polling a future, as a lock holder

VARIABLES
    handles,            \* Seq of [kind, state, from]: every live token handle
    cancellation_flag,  \* CancellationState.cancellation_flag, per state
    async_waiters,      \* CancellationState.async_waiters (Vec), per state
    registry_lock,      \* holder of the async_waiters mutex, per state
    waker,              \* FutureWaiter.waker (Option<Waker>), per cell
    cell_lock,          \* holder of the FutureWaiter.waker mutex, per cell
    fut,                \* CancellationTokenFuture fields, per future
    poll_pc,            \* position inside poll(): "idle" | "check"
    poll_result,        \* what the last finished poll returned
    poll_waker,         \* the waker the last poll was given
    polled_pending,     \* some poll of the future has returned Pending
    wake_count,         \* times waker w was invoked on behalf of future f
    cancel_pc,          \* position inside cancel(): "idle"|"stored"|"draining"
    cancel_via,         \* the handle a running cancel() was called on (0: none)
    cancel_late,        \* the running cancel() found the flag already true
    cancel_snapshot,    \* cells (with their wakers) registered at call time
    cancelled_roots,    \* original tokens whose family had cancel() called
    created_cancelled,  \* the flag was already set when the future was created
    drained             \* what is left of the drain(..) iterator

vars == <<handles, cancellation_flag, async_waiters, registry_lock, waker,
          cell_lock, fut,
          poll_pc, poll_result, poll_waker, polled_pending, wake_count,
          cancel_pc, cancel_via, cancel_late, cancel_snapshot, cancelled_roots,
          created_cancelled, drained>>

\* ------------------------------------------------------------------ helpers
Range(s) == {s[i] : i \in 1..Len(s)}

Allocated == {handles[i].state : i \in 1..Len(handles)}

\* the CancellationState a running cancel() works on (the Arc of its handle)
cancel_state(t) == IF cancel_via[t] = 0 THEN NoState ELSE handles[cancel_via[t]].state

NoFuture == [status |-> "none", token |-> NoState,
             has_been_triggered |-> FALSE, has_finished |-> FALSE]

ZeroWakes == [w \in Wakers |-> 0]

TotalWakes(f) == wake_count[f]["w1"] + wake_count[f]["w2"]

\* ------------------------------------------------------- CancellationState
\* CancellationState::new
NewState == [flag |-> FALSE, waiters |-> <<>>]

\* CancellationState::is_cancelled
state_is_cancelled(s) == cancellation_flag[s]

\* a cancel() that drains without storing into the flag
StoreFlag_keeps(old) == old

\* a cancel() that flips the flag instead of setting it
StoreFlag_toggles(old) == ~old

\* the value cancel() stores into the flag
StoreFlag(old) == TRUE

\* a registration that leaves the Vec as it was
add_waiter_skips(list, cell) == list

\* CancellationState::add_waiter
add_waiter(list, cell) == Append(list, cell)

\* a lookup that reports the last index whenever the cell is in the list
position_last(list, cell) ==
    IF \E i \in 1..Len(list) : list[i] = cell THEN Len(list) ELSE 0

\* a lookup that never finds the cell
position_misses(list, cell) == 0

\* a lookup that falls back to the first entry when the cell is not found
position_or_first(list, cell) ==
    IF \E i \in 1..Len(list) : list[i] = cell
    THEN CHOOSE i \in 1..Len(list) :
            /\ list[i] = cell
            /\ \A j \in 1..(i - 1) : list[j] # cell
    ELSE IF list = <<>> THEN 0 ELSE 1

\* Iterator::position with Arc::ptr_eq; 0 stands for None
position(list, cell) ==
    IF \E i \in 1..Len(list) : list[i] = cell
    THEN CHOOSE i \in 1..Len(list) :
            /\ list[i] = cell
            /\ \A j \in 1..(i - 1) : list[j] # cell
    ELSE 0

\* a removal that overwrites entry i with the last one and forgets to pop
swap_remove_no_pop(list, i) ==
    [j \in 1..Len(list) |-> IF j = i THEN list[Len(list)] ELSE list[j]]

\* a removal that pops the last entry whatever the index found
swap_remove_pops_last(list, i) == SubSeq(list, 1, Len(list) - 1)

\* Vec::swap_remove
swap_remove(list, i) ==
    [j \in 1..(Len(list) - 1) |-> IF j = i THEN list[Len(list)] ELSE list[j]]

\* a removal that takes the cell out but always reports Err(())
try_remove_waiter_err(list, cell) ==
    LET waiter_index == position(list, cell) IN
    [ok |-> FALSE,
     list |-> IF waiter_index = 0 THEN list ELSE swap_remove(list, waiter_index)]

\* a removal that reports the outcome of the lookup and leaves the Vec alone
try_remove_waiter_keeps(list, cell) ==
    [ok |-> position(list, cell) # 0, list |-> list]

\* CancellationState::try_remove_waiter
try_remove_waiter(list, cell) ==
    LET waiter_index == position(list, cell) IN
    IF waiter_index = 0
    THEN [ok |-> FALSE, list |-> list]
    ELSE [ok |-> TRUE, list |-> swap_remove(list, waiter_index)]

\* ------------------------------------------------------------ FutureWaiter
\* FutureWaiter::new_empty
new_empty == None

\* set_waker that keeps a waker already stored instead of replacing it
set_waker_keeps_old(cell, w) == IF cell = None THEN w ELSE cell

\* FutureWaiter::set_waker: both arms leave Some(waker) in the cell
set_waker(cell, w) == w

\* take_waker that hands back a waker even from an empty cell
take_waker_or_default(cell) ==
    [taken |-> IF cell = None THEN "w1" ELSE cell, cell |-> None]

\* take_waker that clears the cell but hands nothing back
take_waker_lost(cell) == [taken |-> None, cell |-> None]

\* FutureWaiter::take_waker
take_waker(cell) == [taken |-> cell, cell |-> None]

\* ----------------------------------------------------------------- handles
\* CancellationToken::is_cancelled / ReadOnlyCancellationToken::is_cancelled
is_cancelled(h) == state_is_cancelled(handles[h].state)

\* a clone that allocates a state of its own instead of sharing the Arc
clone_handle_copies(i) ==
    [kind |-> handles[i].kind, state |-> 3 - handles[i].state, from |-> i]

\* #[derive(Clone)]: the Arc is cloned, the state is shared; `from` records
\* the handle (index i) this one was derived from
clone_handle(i) == [kind |-> handles[i].kind, state |-> handles[i].state, from |-> i]

\* a read-only view that gets a state of its own instead of the token's Arc
read_only_token_detached(i) ==
    [kind |-> "ro", state |-> 3 - handles[i].state, from |-> i]

\* CancellationToken::read_only_token -> ReadOnlyCancellationToken::from_inner
read_only_token(i) == [kind |-> "ro", state |-> handles[i].state, from |-> i]

\* the CancellationToken::new() call a handle descends from
RECURSIVE root(_)
root(i) == IF handles[i].from = 0 THEN i ELSE root(handles[i].from)

\* a new() that hands out one shared state instead of allocating its own
new_token_shared(s) == [kind |-> "rw", state |-> 1, from |-> 0]

\* CancellationToken::new on a freshly allocated state s
new_token(s) == [kind |-> "rw", state |-> s, from |-> 0]

TypeOK ==
    /\ Len(handles) <= MaxHandles
    /\ cancellation_flag \in [States -> BOOLEAN]
    /\ \A s \in States : Range(async_waiters[s]) \subseteq Futures
    /\ registry_lock \in [States -> Threads \cup {NoThread}]
    /\ waker \in [Futures -> Wakers \cup {None}]
    /\ poll_pc \in [Futures -> {"idle", "check"}]
    /\ cancel_pc \in [Threads -> {"idle", "stored", "draining"}]

InitState ==
    /\ cancellation_flag = [s \in States |-> NewState.flag]
    /\ async_waiters = [s \in States |-> NewState.waiters]
    /\ registry_lock = [s \in States |-> NoThread]
    /\ waker = [f \in Futures |-> None]
    /\ cell_lock = [f \in Futures |-> NoThread]
    /\ fut = [f \in Futures |-> NoFuture]
    /\ poll_pc = [f \in Futures |-> "idle"]
    /\ poll_result = [f \in Futures |-> None]
    /\ poll_waker = [f \in Futures |-> None]
    /\ polled_pending = [f \in Futures |-> FALSE]
    /\ wake_count = [f \in Futures |-> ZeroWakes]
    /\ cancel_pc = [t \in Threads |-> "idle"]
    /\ cancel_via = [t \in Threads |-> 0]
    /\ cancel_late = [t \in Threads |-> FALSE]
    /\ cancel_snapshot = [t \in Threads |-> [f \in Futures |-> None]]
    /\ cancelled_roots = {}
    /\ created_cancelled = [f \in Futures |-> FALSE]
    /\ drained = [t \in Threads |-> <<>>]

\* ------------------------------------------------------------ handle steps
\* CancellationToken::new
NewToken ==
    /\ Len(handles) < MaxHandles
    /\ \E s \in States \ Allocated :
        /\ \A s2 \in States \ Allocated : s <= s2
        /\ handles' = Append(handles, new_token(s))
    /\ UNCHANGED <<cancellation_flag, async_waiters, registry_lock, waker, fut,
                   poll_pc, poll_result, poll_waker, polled_pending, wake_count,
                   cancel_pc, cancel_via, cancel_late, cancel_snapshot,
                   cancelled_roots, created_cancelled, drained, cell_lock>>

\* CancellationToken::clone / ReadOnlyCancellationToken::clone
CloneToken(h) ==
    /\ Len(handles) < MaxHandles
    /\ handles' = Append(handles, clone_handle(h))
    /\ UNCHANGED <<cancellation_flag, async_waiters, registry_lock, waker, fut,
                   poll_pc, poll_result, poll_waker, polled_pending, wake_count,
                   cancel_pc, cancel_via, cancel_late, cancel_snapshot,
                   cancelled_roots, created_cancelled, drained, cell_lock>>

\* CancellationToken::read_only_token
ReadOnlyToken(h) ==
    /\ Len(handles) < MaxHandles
    /\ handles[h].kind = "rw"
    /\ handles' = Append(handles, read_only_token(h))
    /\ UNCHANGED <<cancellation_flag, async_waiters, registry_lock, waker, fut,
                   poll_pc, poll_result, poll_waker, polled_pending, wake_count,
                   cancel_pc, cancel_via, cancel_late, cancel_snapshot,
                   cancelled_roots, created_cancelled, drained, cell_lock>>

\* ------------------------------------------------------------ future steps
U_handles == UNCHANGED handles
U_cancel  == UNCHANGED <<cancel_pc, cancel_via, cancel_late, cancel_snapshot,
                         cancelled_roots, drained>>
U_poll    == UNCHANGED <<poll_pc, poll_result, poll_waker, polled_pending>>

\* CancellationTokenFuture::new: the struct a fresh future starts as
new_future(s) == [status |-> "live", token |-> s,
                  has_been_triggered |-> FALSE, has_finished |-> FALSE]

\* CancellationToken::cancellation_future / ReadOnlyCancellationToken::
\* cancellation_future -> CancellationTokenFuture::new (add_waiter under the lock)
CreateFuture(h, f) ==
    LET s == handles[h].state IN
    /\ fut[f].status = "none"
    /\ \A g \in Futures : g < f => fut[g].status # "none"
    /\ registry_lock[s] = NoThread
    /\ waker' = [waker EXCEPT ![f] = new_empty]
    /\ async_waiters' = [async_waiters EXCEPT ![s] = add_waiter(@, f)]
    /\ fut' = [fut EXCEPT ![f] = new_future(s)]
    /\ created_cancelled' = [created_cancelled EXCEPT ![f] = state_is_cancelled(s)]
    /\ UNCHANGED <<cancellation_flag, registry_lock, wake_count, cell_lock>>
    /\ U_handles /\ U_cancel /\ U_poll

\* a guard that is leaked: the mutex stays locked
drop_guard_leaks(holder) == holder

\* MutexGuard going out of scope at the end of set_waker / take_waker
drop_guard(holder) == NoThread

\* set_waker's effect on everything but the cell's mutex
SetWaker(f, w) ==
    /\ fut[f].status = "live"
    /\ poll_pc[f] = "idle"
    /\ waker' = [waker EXCEPT ![f] = set_waker(@, w)]
    /\ poll_waker' = [poll_waker EXCEPT ![f] = w]
    /\ poll_pc' = [poll_pc EXCEPT ![f] = "check"]
    /\ UNCHANGED <<cancellation_flag, async_waiters, registry_lock, fut,
                   poll_result, polled_pending, wake_count, created_cancelled>>
    /\ U_handles /\ U_cancel

\* poll(), first half: self.waiter.set_waker(cx.waker()), the cell's mutex
\* taken and released within the step
PollSetWaker(f, w) ==
    /\ cell_lock[f] = NoThread
    /\ SetWaker(f, w)
    /\ UNCHANGED cell_lock

\* a poll that completes whatever the flag says
poll_decide_always_ready(me, flag_read) ==
    [me |-> [me EXCEPT !.has_been_triggered = TRUE, !.has_finished = TRUE],
     result |-> "Ready"]

\* a poll that trusts its cached has_been_triggered and never loads the flag
poll_decide_never_reads(me, flag_read) ==
    [me |-> [me EXCEPT !.has_finished = IF me.has_been_triggered THEN TRUE ELSE @],
     result |-> IF me.has_been_triggered THEN "Ready" ELSE "Pending"]

\* a poll that reports Pending once the future has finished
poll_decide_spent(me, flag_read) ==
    LET triggered == IF ~me.has_been_triggered THEN flag_read
                     ELSE me.has_been_triggered
    IN  [me |-> [me EXCEPT !.has_been_triggered = triggered,
                           !.has_finished = IF triggered THEN TRUE ELSE @],
         result |-> IF triggered /\ ~me.has_finished THEN "Ready" ELSE "Pending"]

\* poll(), second half: the two ifs, given the flag value the load returns
poll_decide(me, flag_read) ==
    LET triggered == IF ~me.has_been_triggered THEN flag_read
                     ELSE me.has_been_triggered
    IN  [me |-> [me EXCEPT !.has_been_triggered = triggered,
                           !.has_finished = IF triggered THEN TRUE ELSE @],
         result |-> IF triggered THEN "Ready" ELSE "Pending"]

PollCheck(f) ==
    LET r == poll_decide(fut[f], state_is_cancelled(fut[f].token)) IN
    /\ fut[f].status = "live"
    /\ poll_pc[f] = "check"
    /\ fut' = [fut EXCEPT ![f] = r.me]
    /\ poll_result' = [poll_result EXCEPT ![f] = r.result]
    /\ polled_pending' = [polled_pending EXCEPT ![f] = @ \/ r.result = "Pending"]
    /\ poll_pc' = [poll_pc EXCEPT ![f] = "idle"]
    /\ UNCHANGED <<cancellation_flag, async_waiters, registry_lock, waker,
                   poll_waker, wake_count, created_cancelled, cell_lock>>
    /\ U_handles /\ U_cancel

\* a finished query that also looks at the shared flag
is_terminated_reads_flag(f) ==
    fut[f].has_finished \/ state_is_cancelled(fut[f].token)

\* FusedFuture::is_terminated: reads self.has_finished, writes nothing
is_terminated(f) == fut[f].has_finished

\* Drop for CancellationTokenFuture: try_remove_waiter, result ignored; the
\* future's fields and (being out of the registry) its cell cease to exist
dropped_future(s, found) == [status |-> "dropped", token |-> s,
                             has_been_triggered |-> FALSE, has_finished |-> FALSE,
                             removed |-> found]

DropFuture(f) ==
    LET s == fut[f].token
        r == try_remove_waiter(async_waiters[s], f)
    IN
    /\ fut[f].status = "live"
    /\ poll_pc[f] = "idle"
    /\ registry_lock[s] = NoThread
    /\ async_waiters' = [async_waiters EXCEPT ![s] = r.list]
    /\ fut' = [fut EXCEPT ![f] = dropped_future(s, r.ok)]
    /\ waker' = [waker EXCEPT ![f] = None]
    /\ poll_result' = [poll_result EXCEPT ![f] = None]
    /\ poll_waker' = [poll_waker EXCEPT ![f] = None]
    /\ polled_pending' = [polled_pending EXCEPT ![f] = FALSE]
    /\ created_cancelled' = [created_cancelled EXCEPT ![f] = FALSE]
    /\ UNCHANGED <<cancellation_flag, registry_lock, wake_count, poll_pc,
                   cell_lock>>
    /\ U_handles /\ U_cancel

\* ------------------------------------------------------------ cancel steps
\* the cells in a registry, each with the waker it holds
Snapshot(s) ==
    [f \in Futures |-> IF f \in Range(async_waiters[s]) THEN waker[f] ELSE None]

NoSnapshot == [f \in Futures |-> None]

\* CancellationToken::cancel -> CancellationState::cancel, first statement:
\* cancellation_flag.store(true, Release)
CancelStore(t, h) ==
    LET s == handles[h].state IN
    /\ handles[h].kind = "rw"
    /\ cancel_pc[t] = "idle"
    /\ cancellation_flag' = [cancellation_flag EXCEPT ![s] = StoreFlag(@)]
    /\ cancel_pc' = [cancel_pc EXCEPT ![t] = "stored"]
    /\ cancel_via' = [cancel_via EXCEPT ![t] = h]
    /\ cancel_late' = [cancel_late EXCEPT ![t] = cancellation_flag[s]]
    /\ cancel_snapshot' = [cancel_snapshot EXCEPT ![t] = Snapshot(s)]
    /\ cancelled_roots' = cancelled_roots \cup {root(h)}
    /\ UNCHANGED <<async_waiters, registry_lock, waker, fut, wake_count, drained,
                   created_cancelled, cell_lock>>
    /\ U_handles /\ U_poll

\* a cancel() that notifies one waiter: only the first entry leaves the Vec
drain_first_only(list) ==
    IF list = <<>> THEN [left |-> <<>>, iter |-> <<>>]
    ELSE [left |-> Tail(list), iter |-> <<Head(list)>>]

\* iterating over the Vec without draining it
drain_keeps_entries(list) == [left |-> list, iter |-> list]

\* what drain(..) leaves in the Vec and hands to the loop
drain_all(list) == [left |-> <<>>, iter |-> list]

\* wake_all_async_waiters: async_waiters.lock() and locked_waiter_list.drain(..)
CancelLock(t) ==
    LET s == cancel_state(t)
        d == drain_all(async_waiters[s])
    IN
    /\ cancel_pc[t] = "stored"
    /\ registry_lock[s] = NoThread
    /\ registry_lock' = [registry_lock EXCEPT ![s] = t]
    /\ async_waiters' = [async_waiters EXCEPT ![s] = d.left]
    /\ drained' = [drained EXCEPT ![t] = d.iter]
    /\ cancel_pc' = [cancel_pc EXCEPT ![t] = "draining"]
    /\ UNCHANGED <<cancellation_flag, waker, fut, wake_count,
                   cancel_via, cancel_late, cancel_snapshot,
                   cancelled_roots, created_cancelled, cell_lock>>
    /\ U_handles /\ U_poll

\* Waker::wake counted, saturating at MaxWakeCount
woken(count, w) ==
    IF w = None THEN count
    ELSE [count EXCEPT ![w] = IF @ < MaxWakeCount THEN @ + 1 ELSE @]

\* one iteration of the for loop (take_waker, then wake if Some): its effect
\* on everything but the cell's mutex
DrainNext(t) ==
    LET f == Head(drained[t])
        r == take_waker(waker[f])
    IN
    /\ cancel_pc[t] = "draining"
    /\ drained[t] # <<>>
    /\ waker' = [waker EXCEPT ![f] = r.cell]
    /\ wake_count' = [wake_count EXCEPT ![f] = woken(@, r.taken)]
    /\ drained' = [drained EXCEPT ![t] = Tail(@)]
    /\ UNCHANGED <<cancellation_flag, async_waiters, registry_lock, fut,
                   cancel_pc, cancel_via, cancel_late, cancel_snapshot,
                   cancelled_roots, created_cancelled>>
    /\ U_handles /\ U_poll

\* one iteration of the for loop, the cell's mutex taken and released within
\* the step
CancelDrainNext(t) ==
    /\ cancel_pc[t] = "draining"
    /\ drained[t] # <<>>
    /\ cell_lock[Head(drained[t])] = NoThread
    /\ DrainNext(t)
    /\ UNCHANGED cell_lock

\* the loop is over: the guard is dropped and cancel() returns
CancelReturn(t) ==
    /\ cancel_pc[t] = "draining"
    /\ drained[t] = <<>>
    /\ registry_lock' = [registry_lock EXCEPT ![cancel_state(t)] = NoThread]
    /\ cancel_pc' = [cancel_pc EXCEPT ![t] = "idle"]
    /\ cancel_via' = [cancel_via EXCEPT ![t] = 0]
    /\ cancel_late' = [cancel_late EXCEPT ![t] = FALSE]
    /\ cancel_snapshot' = [cancel_snapshot EXCEPT ![t] = NoSnapshot]
    /\ UNCHANGED <<cancellation_flag, async_waiters, waker, fut, wake_count, drained,
                   cancelled_roots, created_cancelled, cell_lock>>
    /\ U_handles /\ U_poll

\* a new cancel() call runs in the lowest free call slot
FreeSlot(t) ==
    /\ cancel_pc[t] = "idle"
    /\ t = "t2" => cancel_pc["t1"] # "idle"

\* the executor's wakers are named in the order a future first sees them
FreshWaker(f, w) == w = "w2" => poll_waker[f] # None

\* ---------------------------------------------------------- specifications
\* One token and a read-only view of it; futures, polls, drops and up to two
\* concurrent cancel() calls on their shared state.
Init ==
    /\ InitState
    /\ handles = <<[kind |-> "rw", state |-> 1, from |-> 0],
                  [kind |-> "ro", state |-> 1, from |-> 1]>>

Next ==
    \/ \E h \in 1..Len(handles), f \in Futures : CreateFuture(h, f)
    \/ \E f \in Futures, w \in Wakers : FreshWaker(f, w) /\ PollSetWaker(f, w)
    \/ \E f \in Futures : PollCheck(f)
    \/ \E f \in Futures : DropFuture(f)
    \/ \E t \in Threads, h \in 1..Len(handles) : FreeSlot(t) /\ CancelStore(t, h)
    \/ \E t \in Threads : CancelLock(t)
    \/ \E t \in Threads : CancelDrainNext(t)
    \/ \E t \in Threads : CancelReturn(t)

Spec == Init /\ [][Next]_vars

\* The executor contract of the crate's users: a future whose waker was invoked
\* is polled again until it completes.
RePoll ==
    \E f \in Futures :
        /\ TotalWakes(f) > 0
        /\ ~fut[f].has_finished
        /\ \/ \E w \in Wakers : FreshWaker(f, w) /\ PollSetWaker(f, w)
           \/ PollCheck(f)

\* A thread inside cancel() keeps running: the lock is taken when free, the
\* loop advances, the call returns.
CancelProgress ==
    \E t \in Threads : CancelLock(t) \/ CancelDrainNext(t) \/ CancelReturn(t)

FairSpec == Init /\ [][Next]_vars /\ WF_vars(RePoll) /\ WF_vars(CancelProgress)

\* Handles created, cloned and restricted at run time over up to two
\* independent states, with one cancelling thread.
InitTokens ==
    /\ InitState
    /\ handles = <<>>

NextTokens ==
    \/ NewToken
    \/ \E h \in 1..Len(handles) : CloneToken(h)
    \/ \E h \in 1..Len(handles) : ReadOnlyToken(h)
    \/ \E h \in 1..Len(handles), f \in 1..MaxTokenFutures : CreateFuture(h, f)
    \/ \E f \in 1..MaxTokenFutures : PollSetWaker(f, "w1")
    \/ \E f \in 1..MaxTokenFutures : PollCheck(f)
    \/ \E f \in 1..MaxTokenFutures : DropFuture(f)
    \/ \E h \in 1..Len(handles) : CancelStore("t1", h)
    \/ CancelLock("t1")
    \/ CancelDrainNext("t1")
    \/ CancelReturn("t1")

SpecTokens == InitTokens /\ [][NextTokens]_vars

\* ------------------------------------------------------ the two mutexes
\* The same operations with the cell's mutex taken and released in steps of
\* their own, so that a thread can be seen waiting for it.
U_but_cell_lock ==
    UNCHANGED <<handles, cancellation_flag, async_waiters, registry_lock, waker,
                fut, poll_pc, poll_result, poll_waker, polled_pending, wake_count,
                cancel_pc, cancel_via, cancel_late, cancel_snapshot,
                cancelled_roots, created_cancelled, drained>>

\* set_waker: self.waker.lock() by the polling task
SetWakerLock(f) ==
    /\ fut[f].status = "live"
    /\ poll_pc[f] = "idle"
    /\ cell_lock[f] = NoThread
    /\ cell_lock' = [cell_lock EXCEPT ![f] = Poller]
    /\ U_but_cell_lock

\* set_waker: the match on the locked Option, then the guard is dropped
SetWakerStore(f, w) ==
    /\ cell_lock[f] = Poller
    /\ SetWaker(f, w)
    /\ cell_lock' = [cell_lock EXCEPT ![f] = drop_guard(@)]

\* take_waker: self.waker.lock() by the cancelling thread, inside the loop
\* and so with the registry lock held
TakeWakerLock(t) ==
    /\ cancel_pc[t] = "draining"
    /\ drained[t] # <<>>
    /\ cell_lock[Head(drained[t])] = NoThread
    /\ cell_lock' = [cell_lock EXCEPT ![Head(drained[t])] = t]
    /\ U_but_cell_lock

\* take_waker: locked_waker.take(), the guard is dropped, then wake if Some
TakeWakerWake(t) ==
    /\ cancel_pc[t] = "draining"
    /\ drained[t] # <<>>
    /\ cell_lock[Head(drained[t])] = t
    /\ DrainNext(t)
    /\ cell_lock' = [cell_lock EXCEPT ![Head(drained[t])] = drop_guard(@)]

\* a future is dropped by the task that owns it, so not inside a poll of it
DropIdle(f) == cell_lock[f] # Poller /\ DropFuture(f)

NextLocks ==
    \/ \E h \in 1..Len(handles), f \in Futures : CreateFuture(h, f)
    \/ \E f \in Futures : SetWakerLock(f)
    \/ \E f \in Futures : SetWakerStore(f, "w1")
    \/ \E f \in Futures : PollCheck(f)
    \/ \E f \in Futures : DropIdle(f)
    \/ \E t \in Threads, h \in 1..Len(handles) : FreeSlot(t) /\ CancelStore(t, h)
    \/ \E t \in Threads : CancelLock(t)
    \/ \E t \in Threads : TakeWakerLock(t)
    \/ \E t \in Threads : TakeWakerWake(t)
    \/ \E t \in Threads : CancelReturn(t)

SpecLocks == Init /\ [][NextLocks]_vars

\* ------------------------------------------------------------- properties
Live(f) == fut[f].status = "live"

\* no cancel() call is between its flag store and its return on state s
Quiescent(s) == \A t \in Threads : cancel_state(t) # s

\* cancel() by t has finished its loop and is about to return
AtReturn(t) == cancel_pc[t] = "draining" /\ drained[t] = <<>>

\* the step finishes a poll of f
PollReturns(f) == poll_pc[f] = "check" /\ poll_pc'[f] = "idle"

\* f sits Pending with the flag set, every cancel() returned, and the waker
\* its last poll stored was never invoked
MissedWakeup(f) ==
    /\ Live(f)
    /\ poll_pc[f] = "idle"
    /\ poll_result[f] = "Pending"
    /\ cancellation_flag[fut[f].token]
    /\ Quiescent(fut[f].token)
    /\ wake_count[f][poll_waker[f]] = 0

\* C1: no missed wakeup.  However the steps of a poll (store waker, read flag)
\* interleave with the steps of cancel() (set flag, drain, take and wake), no
\* step leads to a state where a future is Pending, the flag is set, no cancel()
\* is still running and the waker the poll stored was never invoked; and a poll
\* that finishes after the future was woken returns Ready.
C1_NoMissedWakeup ==
    [][\A f \in Futures :
          /\ ~MissedWakeup(f)'
          /\ (PollReturns(f) /\ TotalWakes(f) > 0) => poll_result'[f] = "Ready"]_vars

\* a poll returned Pending, cancel() ran to its end and woke the stored waker,
\* and the next poll returned Ready
C1_Witness ==
    \E f \in Futures :
        /\ Live(f) /\ polled_pending[f] /\ poll_result[f] = "Ready"
        /\ Quiescent(fut[f].token)
        /\ wake_count[f][poll_waker[f]] = 1

\* C2: exactly-once wake.  A live future that returned Pending from a poll
\* (so before the flag was set) and whose state has since been cancelled, with
\* every cancel() returned, has had exactly one waker invocation in total,
\* whatever polls and further cancel() calls followed.
C2_ExactlyOnceWake ==
    \A f \in Futures :
        (/\ Live(f) /\ polled_pending[f]
         /\ cancellation_flag[fut[f].token]
         /\ Quiescent(fut[f].token)) => TotalWakes(f) = 1

\* polled Pending, cancelled, then polled again (Ready) with another waker:
\* still one invocation
C2_Witness ==
    \E f \in Futures :
        /\ Live(f) /\ polled_pending[f] /\ fut[f].has_finished
        /\ poll_pc[f] = "idle" /\ poll_waker[f] = "w2"
        /\ Quiescent(fut[f].token)
        /\ TotalWakes(f) = 1

\* C4: liveness.  Under an executor that re-polls a woken future, and with
\* cancel() calls running to their end, a future that returned Pending from a
\* poll and whose state gets cancelled eventually completes (has_finished,
\* i.e. a poll returned Ready), unless it is dropped first; in particular
\* every future whose waker cancel() invoked does.
C4_EventuallyReady ==
    \A f \in Futures :
        /\ (Live(f) /\ polled_pending[f] /\ cancellation_flag[fut[f].token])
              ~> (fut[f].has_finished \/ fut[f].status = "dropped")
        /\ (Live(f) /\ TotalWakes(f) > 0)
              ~> (fut[f].has_finished \/ fut[f].status = "dropped")

\* a future that was Pending, was woken by cancel() and then completed
C4_Witness ==
    \E f \in Futures :
        /\ Live(f) /\ polled_pending[f] /\ TotalWakes(f) = 1
        /\ fut[f].has_finished /\ poll_result[f] = "Ready" /\ poll_pc[f] = "idle"

\* C5 as claimed: a live future that has completed (a poll returned Ready)
\* has no cell in the registry of its state.  Stated for the states in which
\* no cancel() call is running, i.e. not counting the window between a
\* cancel()'s flag store and its drain.
C5_NoLeakOnCompletion ==
    \A f \in Futures :
        (Live(f) /\ fut[f].has_finished /\ Quiescent(fut[f].token))
            => f \notin Range(async_waiters[fut[f].token])

\* C3 as claimed: when cancel() returns, every cell that was registered with
\* a stored waker when the call set the flag has had that waker invoked
\* (stated here for the cells whose future is still alive at the return).
C3_SnapshotWakerInvoked ==
    \A t \in Threads :
        AtReturn(t) =>
            \A f \in Futures :
                (cancel_snapshot[t][f] # None /\ Live(f))
                    => wake_count[f][cancel_snapshot[t][f]] >= 1

\* C3, amended: when cancel() returns, every cell that was registered with a
\* stored waker when the call set the flag has had a waker invoked (the one
\* the cell held when the drain reached it), unless its future was dropped
\* and removed the cell from the registry before the drain.
C3_SynchronousDrainAndWake ==
    \A t \in Threads :
        AtReturn(t) =>
            \A f \in Futures :
                cancel_snapshot[t][f] # None
                    => \/ TotalWakes(f) >= 1
                       \/ fut[f].status = "dropped" /\ fut[f].removed

\* cancel() is about to return, having woken a future that was Pending and
\* has not been polled since
C3_Witness ==
    \E t \in Threads, f \in Futures :
        /\ AtReturn(t)
        /\ cancel_snapshot[t][f] # None
        /\ Live(f) /\ poll_pc[f] = "idle" /\ poll_result[f] = "Pending"
        /\ wake_count[f][cancel_snapshot[t][f]] = 1

\* the step drops future f
Drops(f) == Live(f) /\ fut'[f].status = "dropped"

\* C6: no leak on abandonment.  A drop of a future that has not completed, on
\* a state that has not been cancelled, finds the cell, removes exactly it and
\* leaves every other entry of the registry in place.
C6_NoLeakOnAbandonment ==
    [][\A f \in Futures :
          (Drops(f) /\ ~fut[f].has_finished /\ ~cancellation_flag[fut[f].token]) =>
              LET s == fut[f].token IN
              /\ fut'[f].removed
              /\ f \notin Range(async_waiters'[s])
              /\ Range(async_waiters'[s]) = Range(async_waiters[s]) \ {f}
              /\ Len(async_waiters'[s]) = Len(async_waiters[s]) - 1]_vars

\* the first of two registered futures was dropped before any cancel(); the
\* second, swapped into its place, is still registered
C6_Witness ==
    \E f, g \in Futures :
        /\ f < g
        /\ fut[f].status = "dropped" /\ fut[f].removed
        /\ Live(g) /\ ~cancellation_flag[fut[g].token]
        /\ fut[f].token = fut[g].token
        /\ async_waiters[fut[g].token] = <<g>>

\* the step is one of thread t's cancel() call
CancelStep(t) == cancel_pc'[t] # cancel_pc[t] \/ drained'[t] # drained[t]

\* the state thread t's cancel() call works on, in a step of that call
StepState(t) ==
    IF cancel_via[t] # 0 THEN cancel_state(t) ELSE handles[cancel_via'[t]].state

\* the step changes nothing a caller can observe of state s
ObsUnchanged(s) ==
    /\ cancellation_flag'[s] = cancellation_flag[s]
    /\ async_waiters'[s] = async_waiters[s]
    /\ UNCHANGED <<waker, wake_count>>

\* C7: idempotence of cancel().  Every cancel() returns with the flag set and
\* the registry empty, and every step of a cancel() call taken from such a
\* state (flag set, registry empty, nothing handed to the caller's loop), as
\* the steps of a second, third, ... call in a row are, leaves the flag set and
\* the flag, the registry, the stored wakers and the wake counts unchanged.
C7_IdempotentCancel ==
    [][\A t \in Threads :
          CancelStep(t) =>
              LET s == StepState(t) IN
              /\ cancel_pc'[t] = "idle"
                    => cancellation_flag'[s] /\ async_waiters'[s] = <<>>
              /\ (cancellation_flag[s] /\ async_waiters[s] = <<>> /\ drained[t] = <<>>)
                    => cancellation_flag'[s] /\ ObsUnchanged(s)]_vars

\* a second cancel() runs alone, after a first one woke a future and returned
C7_Witness ==
    \E t \in Threads, f \in Futures :
        /\ cancel_pc[t] = "draining" /\ drained[t] = <<>> /\ cancel_late[t]
        /\ cancel_snapshot[t] = NoSnapshot
        /\ \A u \in Threads \ {t} : cancel_pc[u] = "idle"
        /\ Live(f) /\ polled_pending[f] /\ TotalWakes(f) = 1
        /\ f \notin Range(async_waiters[fut[f].token])
        /\ \A g \in Futures : fut[g].status # "none" => f = g

\* C8 as claimed: a cancel() call that found the flag already true leaves the
\* registry and every stored waker unchanged and invokes no callback.
C8_LateCancelIsNoOp ==
    [][\A t \in Threads :
          (cancel_late[t] /\ CancelStep(t))
              => UNCHANGED <<async_waiters, waker, wake_count>>]_vars

\* C8, amended: a cancel() call that found the flag already true never changes
\* the flag, and it changes nothing observable if the registry is empty when
\* it takes the registry lock; otherwise it drains the cells that are still
\* registered and only touches those (their stored wakers are taken and woken).
C8_LateCancel ==
    [][\A t \in Threads :
          (cancel_late[t] /\ CancelStep(t)) =>
              LET s == cancel_state(t) IN
              /\ cancellation_flag[s] /\ cancellation_flag' = cancellation_flag
              /\ (cancel_pc[t] = "stored" /\ async_waiters[s] = <<>>)
                    => UNCHANGED <<async_waiters, waker, wake_count>> /\ drained'[t] = <<>>
              /\ \A f \in Futures :
                    (waker'[f] # waker[f] \/ wake_count'[f] # wake_count[f])
                        => drained[t] # <<>> /\ f = Head(drained[t])]_vars

\* two cancel() calls race: the one that found the flag already true holds the
\* lock with an empty loop while the first caller still waits for the lock
C8_Witness ==
    \E t, u \in Threads :
        /\ cancel_late[t] /\ cancel_pc[t] = "draining" /\ drained[t] = <<>>
        /\ ~cancel_late[u] /\ cancel_pc[u] = "stored"
        /\ \E f \in Futures : Live(f) /\ TotalWakes(f) = 1

\* C9: monotonicity.  Once is_cancelled() is true on a handle, no step (new
\* token, clone, read-only view, future creation, poll, drop, any step of
\* cancel) leads to a state where is_cancelled() is false on that handle or on
\* any other handle of the same state.
C9_Monotonic ==
    [][\A h \in 1..Len(handles) :
          is_cancelled(h) =>
              \A k \in 1..Len(handles') :
                  handles'[k].state = handles[h].state
                      => cancellation_flag'[handles'[k].state]]_vars

\* a cancelled state seen through a token and a read-only view of it, while a
\* further cancel() on it is running and its future has completed
C9_Witness ==
    \E h, k \in 1..Len(handles) :
        /\ handles[h].kind = "rw" /\ handles[k].kind = "ro"
        /\ handles[h].state = handles[k].state
        /\ is_cancelled(h) /\ is_cancelled(k)
        /\ cancel_late["t1"] /\ cancel_state("t1") = handles[h].state
        /\ \E f \in Futures : Live(f) /\ fut[f].has_finished

\* C10: shared visibility.  For every handle, is_cancelled() is true exactly
\* when cancel() has been called through a handle of its family (the token
\* made by CancellationToken::new() and everything cloned or derived from it,
\* directly or not): true on A, on its clone B and on its read-only view C
\* after a cancel() through A or B, false on all of them before any cancel().
C10_SharedVisibility ==
    \A h \in 1..Len(handles) : is_cancelled(h) <=> root(h) \in cancelled_roots

\* cancel() called through the clone B of A is seen through A and through the
\* read-only view C of A
C10_Witness ==
    \E a, b, c \in 1..Len(handles) :
        /\ handles[a].from = 0
        /\ handles[b].kind = "rw" /\ handles[b].from = a
        /\ handles[c].kind = "ro" /\ handles[c].from = a
        /\ cancel_via["t1"] = b
        /\ is_cancelled(a) /\ is_cancelled(b) /\ is_cancelled(c)

\* C11: independence of cancellation domains.  For a token whose family (the
\* CancellationToken::new() it descends from) never had cancel() called, however
\* many cancel() calls ran on tokens of other new() calls: is_cancelled() is
\* false, its registry lock is free, every live future created from it is still
\* registered, holds exactly the waker its last poll stored (none if never
\* polled), was never woken and has not completed.
C11_IndependentDomains ==
    \A h \in 1..Len(handles) :
        root(h) \notin cancelled_roots =>
            LET s == handles[h].state IN
            /\ ~is_cancelled(h)
            /\ registry_lock[s] = NoThread
            /\ \A f \in Futures :
                  (Live(f) /\ fut[f].token = s) =>
                      /\ f \in Range(async_waiters[s])
                      /\ waker[f] = poll_waker[f]
                      /\ TotalWakes(f) = 0
                      /\ ~fut[f].has_been_triggered /\ ~fut[f].has_finished
                      /\ poll_result[f] # "Ready"

\* T1.cancel() has run to its end; T2, from another new(), is not cancelled
\* and its polled future still sits in T2's registry with its waker
C11_Witness ==
    \E t1, t2 \in 1..Len(handles) :
        /\ handles[t1].from = 0 /\ handles[t2].from = 0 /\ t1 # t2
        /\ t1 \in cancelled_roots /\ is_cancelled(t1) /\ cancel_pc["t1"] = "idle"
        /\ ~is_cancelled(t2)
        /\ \E f \in Futures :
              /\ Live(f) /\ fut[f].token = handles[t2].state
              /\ poll_result[f] = "Pending" /\ waker[f] = "w1"
              /\ async_waiters[handles[t2].state] = <<f>>
\* C12: broadcast.  Whenever the loop of a cancel() is over, the registry of
\* its state is empty; and once a cancel() has returned (flag set, no call
\* running), every live future that was created before the flag was set,
\* through the token or its read-only view, is out of the registry, and every
\* poll of it that finishes returns Ready.
C12_Broadcast ==
    [][/\ \A t \in Threads : AtReturn(t) => async_waiters[cancel_state(t)] = <<>>
       /\ \A f \in Futures :
            (/\ Live(f) /\ ~created_cancelled[f]
             /\ cancellation_flag[fut[f].token] /\ Quiescent(fut[f].token)) =>
                  /\ f \notin Range(async_waiters[fut[f].token])
                  /\ PollReturns(f) => poll_result'[f] = "Ready"]_vars

\* two futures were Pending before the cancellation; one cancel() woke both,
\* both returned Ready from their next poll and the registry is empty
C12_Witness ==
    /\ \A f \in Futures :
          /\ Live(f) /\ ~created_cancelled[f] /\ polled_pending[f]
          /\ poll_pc[f] = "idle" /\ poll_result[f] = "Ready"
          /\ TotalWakes(f) = 1
    /\ \A s \in States : async_waiters[s] = <<>>
    /\ \A t \in Threads : cancel_pc[t] = "idle"
\* C13: drain postcondition.  From the step in which a cancel() takes the
\* registry lock up to and including its return, the registry is left empty
\* (future creation and future drop wait for the lock), and a cell that has
\* left the registry never enters it again: so no cell that was registered when
\* cancel() was called is registered once the call has returned, nor later.
C13_DrainPostcondition ==
    [][/\ \A s \in States :
            registry_lock[s] # NoThread => async_waiters'[s] = <<>>
       /\ \A f \in Futures :
            (fut[f].status # "none" /\ f \notin Range(async_waiters[fut[f].token]))
                => f \notin Range(async_waiters'[fut[f].token])]_vars

\* a first cancel() is about to return: the future registered when it was
\* called and the one created while it waited for the lock are both drained
C13_Witness ==
    \E t \in Threads, f, g \in Futures :
        /\ AtReturn(t) /\ ~cancel_late[t]
        /\ Live(f) /\ ~created_cancelled[f] /\ cancel_snapshot[t][f] # None
        /\ Live(g) /\ created_cancelled[g]
        /\ async_waiters[cancel_state(t)] = <<>>
\* C14 as claimed: no resumption callback is invoked while the registry lock
\* is held, i.e. every step that invokes a waker of a future starts and ends
\* with the registry lock of the future's state free.
C14_NoWakeUnderLock ==
    [][\A f \in Futures :
          wake_count'[f] # wake_count[f] =>
              /\ registry_lock[fut[f].token] = NoThread
              /\ registry_lock'[fut[f].token] = NoThread]_vars
\* C15: finished is terminal, completion is idempotent.  While a future lives,
\* its has_been_triggered and has_finished never go back to false; and each
\* step of a poll of a future that has finished (a poll returned Ready) is
\* this: the first stores the supplied waker in the future's cell, the second
\* returns Ready, and neither changes the flag, the registry, the wake counts,
\* the future's own fields or anything of another future.
C15_FinishedIsTerminal ==
    [][\A f \in Futures :
          (Live(f) /\ Live(f)') =>
              /\ fut[f].has_been_triggered => fut'[f].has_been_triggered
              /\ fut[f].has_finished => fut'[f].has_finished
              /\ (fut[f].has_finished /\ poll_pc'[f] # poll_pc[f]) =>
                    /\ poll_pc[f] = "idle" => waker'[f] = poll_waker'[f]
                    /\ poll_pc[f] = "check" => waker'[f] = waker[f]
                    /\ PollReturns(f) => poll_result'[f] = "Ready"
                    /\ \A g \in Futures \ {f} : waker'[g] = waker[g]
                    /\ UNCHANGED <<fut, cancellation_flag, async_waiters,
                                   registry_lock, wake_count>>]_vars

\* a future returned Ready from its first poll (waker w1) and Ready again
\* from a later poll, which left its waker w2 in the cell
C15_Witness ==
    \E f \in Futures :
        /\ Live(f) /\ fut[f].has_finished /\ ~polled_pending[f]
        /\ poll_pc[f] = "idle" /\ poll_result[f] = "Ready"
        /\ poll_waker[f] = "w2" /\ waker[f] = "w2"
\* C16: not_found is a silent no-op.  When a future is dropped whose cell is
\* not in the registry (it was drained), try_remove_waiter returns Err(()) and
\* the registry as it was; the drop completes, and the registry, the flag, the
\* registry lock, the wake counts and every other future and cell are unchanged.
C16_NotFoundIsNoOp ==
    [][\A f \in Futures :
          (Drops(f) /\ f \notin Range(async_waiters[fut[f].token])) =>
              LET s == fut[f].token IN
              /\ try_remove_waiter(async_waiters[s], f)
                    = [ok |-> FALSE, list |-> async_waiters[s]]
              /\ fut'[f].status = "dropped" /\ ~fut'[f].removed
              /\ \A g \in Futures \ {f} : waker'[g] = waker[g] /\ fut'[g] = fut[g]
              /\ UNCHANGED <<async_waiters, cancellation_flag, registry_lock,
                             wake_count>>]_vars

\* a future woken and drained by cancel() was dropped and did not find its
\* cell; the future registered after the cancellation is still in the registry
C16_Witness ==
    \E f, g \in Futures :
        /\ fut[f].status = "dropped" /\ ~fut[f].removed /\ TotalWakes(f) = 1
        /\ Live(g) /\ fut[g].token = fut[f].token
        /\ async_waiters[fut[g].token] = <<g>>
\* C17: cancel() happens-before observation.  In every state after a cancel()
\* call has stored the flag, is_cancelled() is true through every handle of
\* that state (the token, its clones, its read-only views): while the call
\* waits for the registry lock or drains the registry, and after it returned.
C17_CancelHappensBefore ==
    \A h \in 1..Len(handles) :
        /\ \A t \in Threads :
              (cancel_pc[t] \in {"stored", "draining"}
                  /\ root(h) = root(cancel_via[t])) => is_cancelled(h)
        /\ root(h) \in cancelled_roots => is_cancelled(h)

\* cancel() called through a token is still draining (a cell is left in its
\* loop) and a read-only view of the token already reports cancellation
C17_Witness ==
    \E h \in 1..Len(handles) :
        /\ cancel_pc["t1"] = "draining" /\ drained["t1"] # <<>>
        /\ handles[h].kind = "ro" /\ h # cancel_via["t1"]
        /\ root(h) = root(cancel_via["t1"])
        /\ is_cancelled(h)
\* C18: a poll returns Pending exactly when the future has not recorded the
\* cancellation (has_been_triggered false) and the flag it loads in that poll
\* is false.  So a poll that returns Ready does it on a state whose flag is
\* set and on which cancel() was called, and a poll that loads the flag as
\* true returns Ready.
C18_PendingIffFlagFalse ==
    [][\A f \in Futures :
          PollReturns(f) =>
              LET flag_read == state_is_cancelled(fut[f].token) IN
              /\ poll_result'[f] = "Pending"
                    <=> (~fut[f].has_been_triggered /\ ~flag_read)
              /\ poll_result'[f] = "Ready"
                    => flag_read /\ cancelled_roots # {}
              /\ flag_read => poll_result'[f] = "Ready"
              /\ poll_result'[f] \in {"Pending", "Ready"}]_vars

\* one future was polled before the cancellation and sits Pending, the other
\* was first polled after it and returned Ready
C18_Witness ==
    \E f, g \in Futures :
        /\ Live(f) /\ poll_pc[f] = "idle" /\ poll_result[f] = "Pending"
        /\ ~fut[f].has_been_triggered
        /\ Live(g) /\ poll_pc[g] = "idle" /\ poll_result[g] = "Ready"
        /\ ~polled_pending[g] /\ fut[g].has_been_triggered
\* C19: never-polled waiter.  For a live future created before the flag was
\* set and of which no poll has started: its cell holds no waker, no step (in
\* particular not the drain iteration that takes it out of cancel()'s loop)
\* invokes a callback for it, and once a cancel() has returned its cell is out
\* of the registry; and the first poll of such a future to finish, when the
\* flag is set, returns Ready.
C19_NeverPolledWaiter ==
    [][\A f \in Futures :
          (Live(f) /\ ~created_cancelled[f]) =>
              LET s == fut[f].token IN
              /\ poll_waker[f] = None =>
                    /\ waker[f] = None /\ TotalWakes(f) = 0
                    /\ wake_count'[f] = wake_count[f]
                    /\ (cancellation_flag[s] /\ Quiescent(s))
                          => f \notin Range(async_waiters[s])
              /\ (PollReturns(f) /\ poll_result[f] = None /\ cancellation_flag[s])
                    => poll_result'[f] = "Ready"]_vars

\* a future created before cancel() was drained without a wake, and its first
\* poll, started after the drain had passed its cell, returned Ready
C19_Witness ==
    \E f \in Futures :
        /\ Live(f) /\ ~created_cancelled[f] /\ ~polled_pending[f]
        /\ poll_pc[f] = "idle" /\ poll_result[f] = "Ready"
        /\ waker[f] = "w1" /\ poll_waker[f] = "w1"
        /\ TotalWakes(f) = 0
        /\ f \notin Range(async_waiters[fut[f].token])
        /\ Quiescent(fut[f].token)
\* C20: registration after cancellation.  Creating a future on a state whose
\* flag is already set appends its cell to the registry like any other
\* creation; every poll of such a future that finishes returns Ready, so it
\* never returns Pending, whether or not any waker was ever invoked for it.
C20_RegistrationAfterCancel ==
    [][\A f \in Futures :
          /\ (fut[f].status = "none" /\ Live(f)'
                  /\ cancellation_flag[fut'[f].token]) =>
                LET s == fut'[f].token IN
                /\ async_waiters'[s] = Append(async_waiters[s], f)
                /\ waker'[f] = None
                /\ created_cancelled'[f]
          /\ (Live(f) /\ created_cancelled[f]) =>
                /\ ~polled_pending[f]
                /\ PollReturns(f) => poll_result'[f] = "Ready"]_vars

\* a future created after cancel() had returned is registered, was never
\* woken and returned Ready from its first poll
C20_Witness ==
    \E f \in Futures :
        /\ Live(f) /\ created_cancelled[f]
        /\ poll_pc[f] = "idle" /\ poll_result[f] = "Ready" /\ poll_waker[f] = "w1"
        /\ TotalWakes(f) = 0
        /\ f \in Range(async_waiters[fut[f].token])
        /\ \A t \in Threads : cancel_pc[t] = "idle"
\* C21: registry uniqueness.  In every reachable state no cell appears twice
\* in a registry, nor in a registry and in the loop of a running cancel() at
\* once; and try_remove_waiter applied to the registry and any cell in it
\* returns Ok with a list that holds every other entry exactly once and the
\* removed cell not at all.
C21_RegistryUniqueness ==
    \A s \in States :
        LET list == async_waiters[s] IN
        /\ Cardinality(Range(list)) = Len(list)
        /\ \A t \in Threads :
              /\ Cardinality(Range(drained[t])) = Len(drained[t])
              /\ cancel_state(t) = s => Range(drained[t]) \cap Range(list) = {}
        /\ \A f \in Range(list) :
              LET r == try_remove_waiter(list, f) IN
              /\ r.ok
              /\ Range(r.list) = Range(list) \ {f}
              /\ Len(r.list) = Len(list) - 1

\* on a cancelled state, the first of two registered futures was dropped and
\* the second, swapped into its place, is the one entry left
C21_Witness ==
    \E f, g \in Futures :
        /\ f < g
        /\ fut[f].status = "dropped" /\ fut[f].removed
        /\ Live(g) /\ created_cancelled[g]
        /\ fut[f].token = fut[g].token
        /\ async_waiters[fut[g].token] = <<g>>
\* C22: not_found means drained.  A dropped future whose drop did not find
\* its cell in the registry belongs to a state whose flag is set and on which
\* cancel() was called, and the cell is in no cancel()'s loop any more; hence a
\* future dropped on a state that was never cancelled found and removed its
\* cell.
C22_NotFoundMeansDrained ==
    \A f \in Futures :
        fut[f].status = "dropped" =>
            LET s == fut[f].token IN
            /\ ~fut[f].removed =>
                  /\ cancellation_flag[s] /\ cancelled_roots # {}
                  /\ \A t \in Threads : f \notin Range(drained[t])
            /\ ~cancellation_flag[s] => fut[f].removed

\* a never-polled future was drained by cancel() without a wake and its drop
\* did not find the cell
C22_Witness ==
    \E f \in Futures :
        /\ fut[f].status = "dropped" /\ ~fut[f].removed
        /\ TotalWakes(f) = 0
        /\ cancellation_flag[fut[f].token]
        /\ \A t \in Threads : cancel_pc[t] = "idle"
\* C23: waker replacement.  The first step of every poll leaves the supplied
\* waker in the future's cell and invokes nothing.  For a live future whose
\* last poll returned Pending (so it stored its waker before the flag was set),
\* no waker other than the one that poll supplied has ever been invoked, that
\* one at most once, and exactly once when a cancel() has run to its end: the
\* wakers of earlier polls were discarded unused.
C23_WakerReplacement ==
    [][\A f \in Futures :
          Live(f) =>
              /\ (poll_pc[f] = "idle" /\ poll_pc'[f] = "check") =>
                    /\ waker'[f] = poll_waker'[f] /\ waker'[f] \in Wakers
                    /\ wake_count' = wake_count
              /\ (poll_pc[f] = "idle" /\ poll_result[f] = "Pending") =>
                    LET s == fut[f].token IN
                    /\ \A w \in Wakers \ {poll_waker[f]} : wake_count[f][w] = 0
                    /\ wake_count[f][poll_waker[f]] <= 1
                    /\ (cancellation_flag[s] /\ Quiescent(s))
                          => wake_count[f][poll_waker[f]] = 1]_vars

\* polled with w1, then Pending with w2, then cancelled: w2 was invoked once
\* and w1 never
C23_Witness ==
    \E f \in Futures :
        /\ Live(f) /\ poll_pc[f] = "idle" /\ poll_result[f] = "Pending"
        /\ poll_waker[f] = "w2"
        /\ wake_count[f] = [w \in Wakers |-> IF w = "w2" THEN 1 ELSE 0]
        /\ cancellation_flag[fut[f].token] /\ Quiescent(fut[f].token)
\* C24: for every live future, is_terminated() is true exactly when a poll of
\* it has returned Ready (Ready being terminal, when its last finished poll
\* did); so after a cancel(), and even after the future's waker was invoked,
\* it stays false until the future is polled.
C24_IsTerminated ==
    \A f \in Futures :
        Live(f) =>
            /\ is_terminated(f) <=> poll_result[f] = "Ready"
            /\ is_terminated(f) => cancellation_flag[fut[f].token]

\* after a cancel() that woke both futures, the one polled again reports
\* terminated and the one not yet polled again does not
C24_Witness ==
    \E f, g \in Futures :
        /\ Live(f) /\ Live(g)
        /\ cancellation_flag[fut[f].token] /\ Quiescent(fut[f].token)
        /\ TotalWakes(f) = 1 /\ poll_pc[f] = "idle" /\ ~is_terminated(f)
        /\ TotalWakes(g) = 1 /\ poll_pc[g] = "idle" /\ is_terminated(g)
\* C26: no callback while the flag is false.  In every reachable state, a
\* future for which some waker has been invoked belongs to a state whose flag
\* is set, and so does every cell a cancel() holds in its loop or is about to
\* drain: cancel() stores the flag before it takes the lock, drains and wakes.
C26_WakeImpliesFlag ==
    /\ \A f \in Futures : TotalWakes(f) > 0 => cancellation_flag[fut[f].token]
    /\ \A t \in Threads :
          cancel_pc[t] # "idle" => cancellation_flag[cancel_state(t)]

\* cancel() has invoked the waker of the first cell of its loop and still
\* holds the second
C26_Witness ==
    \E t \in Threads, f, g \in Futures :
        /\ cancel_pc[t] = "draining" /\ drained[t] = <<g>>
        /\ TotalWakes(f) = 1 /\ TotalWakes(g) = 0 /\ waker[g] # None
        /\ cancellation_flag[fut[f].token]
\* C27: while the flag of a state is false, the cell of every live future of
\* that state is in its registry; and a cell leaves a registry only in the
\* step in which a cancel() that has stored the flag takes the lock and drains
\* it into its loop, or in the drop of its own future.
C27_LiveCellRegistered ==
    [][\A f \in Futures :
          Live(f) =>
              LET s == fut[f].token IN
              /\ ~cancellation_flag[s] => f \in Range(async_waiters[s])
              /\ (f \in Range(async_waiters[s]) /\ f \notin Range(async_waiters'[s])) =>
                    \/ Drops(f)
                    \/ /\ cancellation_flag[s]
                       /\ \E t \in Threads :
                             /\ cancel_pc[t] = "stored" /\ cancel_pc'[t] = "draining"
                             /\ cancel_state(t) = s
                             /\ f \in Range(drained'[t])]_vars

\* before any cancel(): the second future was dropped, the first, polled, is
\* still registered
C27_Witness ==
    \E f, g \in Futures :
        /\ g < f
        /\ fut[f].status = "dropped" /\ fut[f].removed
        /\ Live(g) /\ polled_pending[g] /\ ~cancellation_flag[fut[g].token]
        /\ async_waiters[fut[g].token] = <<g>>
\* C28: no entry outlives its future.  Every entry of a registry, and every
\* cell in the loop of a running cancel(), is the cell of a live future of
\* that state: the cell of a dropped future is in neither.  Hence whenever no
\* future is alive (each future created so far has been dropped) every
\* registry is empty, whether or not the state was cancelled.
C28_NoEntryOutlivesFuture ==
    /\ \A s \in States : \A f \in Range(async_waiters[s]) :
          Live(f) /\ fut[f].token = s
    /\ \A t \in Threads : \A f \in Range(drained[t]) :
          Live(f) /\ fut[f].token = cancel_state(t)
    /\ (\A f \in Futures : ~Live(f)) => \A s \in States : async_waiters[s] = <<>>

\* both futures were created and dropped, one found and removed its cell,
\* the other's had been drained by cancel(): the registry is empty
C28_Witness ==
    /\ \A f \in Futures : fut[f].status = "dropped"
    /\ \E f, g \in Futures : fut[f].removed /\ ~fut[g].removed
    /\ \A s \in States : async_waiters[s] = <<>>
    /\ \A t \in Threads : cancel_pc[t] = "idle"
\* C29: at-most-once wake.  For every future, alive or dropped, created
\* before or after the flag was set, the wakers invoked on its behalf by all
\* cancel() calls so far, sequential or concurrent, number at most one.
C29_AtMostOnceWake ==
    \A f \in Futures : TotalWakes(f) <= 1

\* a future created after the flag was set, while the cancel() waited for
\* the lock, was polled and then woken once by that cancel()'s drain
C29_Witness ==
    \E t \in Threads, f \in Futures :
        /\ Live(f) /\ created_cancelled[f] /\ TotalWakes(f) = 1
        /\ f \notin Range(async_waiters[fut[f].token])
        /\ AtReturn(t) /\ cancel_snapshot[t] = NoSnapshot
        /\ \A u \in Threads \ {t} : cancel_pc[u] = "idle"
\* C30: drop racing with cancel.  A drop invokes no waker, returns found
\* exactly when the cell is still registered, and leaves the registry without
\* the cell.  If the drop found the cell, no waker of the future was ever
\* invoked, and none is invoked in any later step.  If the drain took the cell
\* first, the drop returns not_found and at most one waker was invoked for the
\* future: exactly one if the cell held a waker when it was drained (a poll
\* had returned Pending, or the cell has been emptied since the last poll
\* stored one), none if no poll ever stored one.
C30_DropRacesCancel ==
    [][\A f \in Futures :
          /\ fut[f].status = "dropped" =>
                /\ wake_count'[f] = wake_count[f]
                /\ f \notin Range(async_waiters[fut[f].token])
                /\ fut[f].removed => TotalWakes(f) = 0
          /\ Drops(f) =>
                LET s == fut[f].token
                    registered == f \in Range(async_waiters[s])
                IN
                /\ wake_count' = wake_count
                /\ fut'[f].removed <=> registered
                /\ f \notin Range(async_waiters'[s])
                /\ registered => TotalWakes(f) = 0
                /\ ~registered =>
                      /\ TotalWakes(f) <= 1
                      /\ (polled_pending[f] \/ (poll_waker[f] # None /\ waker[f] = None))
                            => TotalWakes(f) = 1
                      /\ poll_waker[f] = None => TotalWakes(f) = 0]_vars

\* a future registered with a waker when cancel() was called was dropped
\* before that cancel() took the lock: the drop found the cell, the drain
\* that followed did not see it and its waker was never invoked
C30_Witness ==
    \E t \in Threads, f \in Futures :
        /\ AtReturn(t) /\ ~cancel_late[t] /\ cancel_snapshot[t][f] # None
        /\ fut[f].status = "dropped" /\ fut[f].removed
        /\ TotalWakes(f) = 0
\* C25: deadlock freedom, with wakers that do not call into the token.  In
\* every reachable state of create, poll, cancel (two threads) and drop on one
\* state: a cell's mutex is held either by the polling task, which holds no
\* other lock and can finish set_waker, or by the cancelling thread that holds
\* the registry lock (order: registry lock, then cell lock), which can finish
\* take_waker; the holder of the registry lock is inside its loop and either
\* can step or waits for a cell mutex held by a polling task; a cancel()
\* waiting for the registry lock holds no lock; a poll past set_waker holds no
\* lock and can finish; a drop waits for the registry lock at most.  So every
\* wait is for a lock whose holder can run: there is no cyclic wait.
C25_DeadlockFreedom ==
    /\ \A f \in Futures :
          /\ cell_lock[f] = Poller =>
                /\ Live(f) /\ poll_pc[f] = "idle"
                /\ ENABLED SetWakerStore(f, "w1")
          /\ cell_lock[f] \in Threads =>
                /\ Live(f) /\ registry_lock[fut[f].token] = cell_lock[f]
                /\ ENABLED TakeWakerWake(cell_lock[f])
          /\ poll_pc[f] = "check" => cell_lock[f] # Poller /\ ENABLED PollCheck(f)
          /\ (Live(f) /\ poll_pc[f] = "idle" /\ cell_lock[f] # Poller) =>
                ENABLED DropIdle(f) \/ registry_lock[fut[f].token] \in Threads
    /\ \A s \in States :
          registry_lock[s] \in Threads =>
              LET t == registry_lock[s] IN
              /\ cancel_pc[t] = "draining" /\ cancel_state(t) = s
              /\ \/ ENABLED CancelReturn(t)
                 \/ ENABLED TakeWakerWake(t)
                 \/ ENABLED TakeWakerLock(t)
                 \/ cell_lock[Head(drained[t])] = Poller
    /\ \A t \in Threads :
          /\ cancel_pc[t] = "stored" =>
                /\ \A s \in States : registry_lock[s] # t
                /\ \A f \in Futures : cell_lock[f] # t
                /\ ENABLED CancelLock(t)
                      \/ registry_lock[cancel_state(t)] \in Threads \ {t}
          /\ cancel_pc[t] = "draining" => registry_lock[cancel_state(t)] = t
          /\ cancel_pc[t] = "idle" =>
                /\ \A s \in States : registry_lock[s] # t
                /\ \A f \in Futures : cell_lock[f] # t

\* one cancel() holds the registry lock and waits for the mutex of a cell
\* whose future is inside set_waker, while the other cancel() waits for the
\* registry lock
C25_Witness ==
    \E t, u \in Threads :
        /\ cancel_pc[t] = "draining" /\ drained[t] # <<>>
        /\ cell_lock[Head(drained[t])] = Poller
        /\ cancel_pc[u] = "stored"
        /\ \E g \in Futures : g \notin Range(drained[t]) /\ fut[g].status # "none"
====
